---------------------------- MODULE Spec2Model ----------------------------
(***************************************************************************)
(* Word2VecClassification_JobDesc.py: averaged word-vector embeddings of   *)
(* text pairs, their cosine similarity, and the similarity of their        *)
(* distance profiles against a catalog of job titles.                      *)
(*                                                                         *)
(* Representation.                                                         *)
(*  - A text is a sequence of one-character strings.                       *)
(*  - A numpy vector is a record [dim, num, den]: it has dim components,   *)
(*    the first two are num[1]/den and num[2]/den (exact rationals with a  *)
(*    common positive denominator) and every further component is 0.       *)
(*    The lookups below only hold such vectors, and sums and quotients of  *)
(*    such vectors are such vectors again.                                 *)
(*  - A float that comes out of scipy's cosine() is Num(x), x the value    *)
(*    times Scale as an integer (the cosine truncated towards 0), or NaN.  *)
(*  - A Python dict is a sequence of <<key, value>> pairs with distinct    *)
(*    keys: dicts iterate in insertion order.                              *)
(*  - A cosine() that raises yields ValueError; the program then stops at  *)
(*    pc = "raised".                                                       *)
(***************************************************************************)
EXTENDS Integers, Sequences, FiniteSets, TLC

VARIABLES
    pc,                     \* the line of the main block that runs
    at,                     \* position inside the function it called
    word2vec_model,         \* the Vector Lookup: word -> vector
    job_description,        \* the catalog dict: <<title, text>> pairs
    train_pairs,            \* [train_pairs[id] for id in sorted(train_pairs.keys())]
    test_pairs,             \* [test_pairs[id] for id in sorted(test_pairs.keys())]
    text_pairs,             \* argument of the running get_features / textsimilarity
    jobtitle_vec,           \* get_features: catalog dict title -> vector
    jobtitles,              \* get_features: sorted titles
    features,               \* get_features: features / textsimilarity: text_similarity_features
    vec1, vec2,             \* document vectors of the current pair
    vec1distances,          \* distance profile of text1
    vec2distances,          \* distance profile of text2
    train_features_job,     \* results held by the main block
    test_features_job,
    train_features_txtsim,
    test_features_txtsim,
    train_features,         \* main: hstack / normalize_features: argument
    test_features,
    normalized,             \* what normalize_features returned
    catalog_embeds,         \* how often text2vec was applied to each catalog entry
    text,                   \* text2vec called on its own: argument
    vec                     \* text2vec called on its own: result

vars == << pc, at, word2vec_model, job_description, train_pairs, test_pairs,
           text_pairs, jobtitle_vec, jobtitles, features, vec1, vec2,
           vec1distances, vec2distances, train_features_job, test_features_job,
           train_features_txtsim, test_features_txtsim, train_features,
           test_features, normalized, catalog_embeds, text, vec >>

---------------------------------------------------------------------------
(* Bounds *)

\* longest text text2vec is called with on its own
MaxTextLen == 3
\* most text pairs of the train and test files together
MaxPairs == 2
\* most entries of the catalog
MaxCatalog == 2
\* fixed-point resolution of a cosine distance
Scale == 10
\* most rows of a matrix given to normalize_features
MaxRows == 2
\* largest entry of a matrix given to normalize_features
MaxFeature == 2

---------------------------------------------------------------------------
(* Characters and strings *)

Alphabet == {"a", "b", "c", "z", "A", " "}

\* str.lower() on one character
LowerChar(ch) ==
    CASE ch = "A" -> "a"
      [] ch = "B" -> "b"
      [] ch = "C" -> "c"
      [] ch = "Z" -> "z"
      [] OTHER -> ch

\* text.lower()
Lower(s) == [k \in 1..Len(s) |-> LowerChar(s[k])]

\* the characters str.split() splits on
IsSpace(ch) == ch \in {" ", "\t", "\n"}

RECURSIVE SplitFrom(_, _, _)
SplitFrom(s, cur, out) ==
    IF s = <<>>
    THEN IF cur = <<>> THEN out ELSE Append(out, cur)
    ELSE IF IsSpace(Head(s))
         THEN SplitFrom(Tail(s), <<>>, IF cur = <<>> THEN out ELSE Append(out, cur))
         ELSE SplitFrom(Tail(s), Append(cur, Head(s)), out)

\* text.split(): the maximal runs of non-whitespace, in order
Split(s) == SplitFrom(s, <<>>, <<>>)

\* code points, for the comparison of str keys
Ord(ch) ==
    CASE ch = " " -> 32
      [] ch = "a" -> 97
      [] ch = "b" -> 98
      [] ch = "c" -> 99
      [] ch = "z" -> 122
      [] OTHER -> 63

RECURSIVE StrLess(_, _)
\* s < t for two str
StrLess(s, t) ==
    IF t = <<>> THEN FALSE
    ELSE IF s = <<>> THEN TRUE
    ELSE IF Ord(Head(s)) # Ord(Head(t)) THEN Ord(Head(s)) < Ord(Head(t))
    ELSE StrLess(Tail(s), Tail(t))

---------------------------------------------------------------------------
(* Vectors *)

\* the dimension written into text2vec's fallback
ZeroDim == 300

Row(d, x, y) == [dim |-> d, num |-> <<x, y>>, den |-> 1]

\* len(v)
Dim(v) == v.dim

\* u + v for two arrays of one shape
VAdd(u, v) ==
    [dim |-> u.dim,
     num |-> <<u.num[1] * v.den + v.num[1] * u.den, u.num[2] * v.den + v.num[2] * u.den>>,
     den |-> u.den * v.den]

\* v / n
VDiv(v, n) == [v EXCEPT !.den = v.den * n]

\* np.asarray([0] * 300)
ZeroVec == Row(ZeroDim, 0, 0)

\* The Vector Lookups: the toy vectors of dimension 2, and the same vectors
\* in dimension 300 (further components 0). "A" is a cased key, as the
\* GoogleNews vocabulary has them; "c" is the opposite of "a".
LookupDims == {2, ZeroDim}

Lookup(d) ==
    ( <<"a">>      :> Row(d, 1, 0)  @@
      <<"b">>      :> Row(d, 0, 1)  @@
      <<"a", "b">> :> Row(d, 1, 1)  @@
      <<"b", "a">> :> Row(d, 1, -1) @@
      <<"c">>      :> Row(d, -1, 0) @@
      <<"A">>      :> Row(d, 0, -1) @@
      <<"i">>      :> Row(d, 1, 2) )

Lookups == { Lookup(d) : d \in LookupDims }

---------------------------------------------------------------------------
(* text2vec *)

\* vec += row on an array vec: numpy adds in place, so the array vec refers
\* to changes; when that array is a row of the lookup, the lookup changes.
NpIAdd(acc, word, model) ==
    LET s == VAdd(acc.val, model[word]) IN
    IF acc.ref = "new"
    THEN [acc |-> [ref |-> "new", val |-> s], model |-> model]
    ELSE [acc |-> [ref |-> acc.ref, val |-> s],
          model |-> [model EXCEPT ![acc.ref] = s]]

\* A text2vec that starts from the first known word's own row.
AccumulateAliased(acc, word, model) ==
    IF acc.ref = "int"
    THEN [acc |-> [ref |-> word, val |-> model[word]], model |-> model]
    ELSE NpIAdd(acc, word, model)

\* vec += word2vec_model[word]. vec starts as the int 0, which has no
\* in-place add: the first += evaluates 0 + row, a new array.
Accumulate(acc, word, model) ==
    IF acc.ref = "int"
    THEN [acc |-> [ref |-> "new", val |-> model[word]], model |-> model]
    ELSE NpIAdd(acc, word, model)

RECURSIVE Text2VecLoop(_, _, _, _)
\* for word in words: if word in word2vec_model: num_words += 1; vec += ...
Text2VecLoop(words, acc, num_words, model) ==
    IF words = <<>>
    THEN [acc |-> acc, num_words |-> num_words, model |-> model]
    ELSE IF Head(words) \in DOMAIN model
         THEN LET r == Accumulate(acc, Head(words), model) IN
              Text2VecLoop(Tail(words), r.acc, num_words + 1, r.model)
         ELSE Text2VecLoop(Tail(words), acc, num_words, model)

\* A text2vec that looks the words up as they are cased.
Text2VecCased(t, model) ==
    LET words == Split(t)
        r == Text2VecLoop(words, [ref |-> "int", val |-> 0], 0, model)
    IN  [vec   |-> IF r.num_words = 0 THEN ZeroVec ELSE VDiv(r.acc.val, r.num_words),
         model |-> r.model]

\* text2vec(text, word2vec_model): the vector returned, and the lookup as
\* the call leaves it.
Text2Vec(t, model) ==
    LET words == Split(Lower(t))
        r == Text2VecLoop(words, [ref |-> "int", val |-> 0], 0, model)
    IN  [vec   |-> IF r.num_words = 0 THEN ZeroVec ELSE VDiv(r.acc.val, r.num_words),
         model |-> r.model]

---------------------------------------------------------------------------
(* text2vec called on its own, on every text up to MaxTextLen *)

RECURSIVE SeqsUpTo(_, _)
SeqsUpTo(S, n) ==
    IF n = 0 THEN { <<>> }
    ELSE LET shorter == SeqsUpTo(S, n - 1) IN
         shorter \cup { Append(s, x) : s \in shorter, x \in S }

Texts == SeqsUpTo(Alphabet, MaxTextLen)

Idle == "idle"

InitT2V ==
    /\ pc = "text2vec"
    /\ at = "idle"
    /\ word2vec_model \in Lookups
    /\ text \in Texts
    /\ vec = Idle
    /\ job_description = <<>>
    /\ train_pairs = <<>>
    /\ test_pairs = <<>>
    /\ text_pairs = <<>>
    /\ jobtitle_vec = <<>>
    /\ jobtitles = <<>>
    /\ features = <<>>
    /\ vec1 = Idle
    /\ vec2 = Idle
    /\ vec1distances = <<>>
    /\ vec2distances = <<>>
    /\ train_features_job = Idle
    /\ test_features_job = Idle
    /\ train_features_txtsim = Idle
    /\ test_features_txtsim = Idle
    /\ train_features = Idle
    /\ test_features = Idle
    /\ normalized = Idle
    /\ catalog_embeds = <<>>

CallText2Vec ==
    /\ pc = "text2vec"
    /\ LET r == Text2Vec(text, word2vec_model) IN
          /\ vec' = r.vec
          /\ word2vec_model' = r.model
    /\ pc' = "returned"
    /\ UNCHANGED << job_description, train_pairs, test_pairs, text_pairs,
                    jobtitle_vec, jobtitles, features, vec1, vec2,
                    vec1distances, vec2distances, train_features_job,
                    test_features_job, train_features_txtsim,
                    test_features_txtsim, train_features, test_features,
                    normalized, catalog_embeds, text, at >>

NextT2V == CallText2Vec

SpecT2V == InitT2V /\ [][NextT2V]_vars

---------------------------------------------------------------------------
(* scipy.spatial.distance.cosine *)

Num(x) == [kind |-> "float", v |-> x]
NaN == [kind |-> "nan", v |-> 0]
ValueError == [kind |-> "ValueError", v |-> 0]

RECURSIVE Dot(_, _)
\* np.dot(u, v) of two sequences of integers of one length
Dot(u, v) == IF u = <<>> THEN 0 ELSE Head(u) * Head(v) + Dot(Tail(u), Tail(v))

\* 1.0 - uv / sqrt(uu * vv): 0/0 is nan; otherwise the fixed-point value,
\* the cosine truncated towards 0 (exact when the cosine is 1, 0 or -1).
CosineCore(uv, uu, vv) ==
    IF uu * vv = 0 THEN NaN
    ELSE LET r == CHOOSE r \in 0..Scale :
                     /\ r * r * uu * vv <= Scale * Scale * uv * uv
                     /\ (r + 1) * (r + 1) * uu * vv > Scale * Scale * uv * uv
         IN  Num(Scale - (IF uv < 0 THEN 0 - r ELSE r))

\* cosine(u, v) of two document vectors. Shapes that differ raise
\* ValueError. The positive denominators cancel in uv / sqrt(uu * vv); the
\* components past the second are 0 and add nothing to a dot product.
CosineVec(u, v) ==
    IF Dim(u) # Dim(v) THEN ValueError
    ELSE CosineCore(Dot(u.num, v.num), Dot(u.num, u.num), Dot(v.num, v.num))

\* cosine(p, q) of two lists of floats of one length: nan when an entry is nan
CosineList(p, q) ==
    IF \E k \in 1..Len(p) : p[k].kind = "nan" \/ q[k].kind = "nan" THEN NaN
    ELSE LET a == [k \in 1..Len(p) |-> p[k].v]
             b == [k \in 1..Len(q) |-> q[k].v]
         IN  CosineCore(Dot(a, b), Dot(a, a), Dot(b, b))

\* 1 - d
OneMinus(d) == IF d.kind = "float" THEN Num(Scale - d.v) ELSE d

---------------------------------------------------------------------------
(* dicts *)

Keys(d) == { d[k][1] : k \in 1..Len(d) }

\* d[key]
Get(d, key) == d[CHOOSE k \in 1..Len(d) : d[k][1] = key][2]

RECURSIVE Sorted(_)
\* sorted(S) of a set of str
Sorted(S) ==
    IF S = {} THEN <<>>
    ELSE LET m == CHOOSE x \in S : \A y \in S \ {x} : StrLess(x, y)
         IN  <<m>> \o Sorted(S \ {m})

RECURSIVE IdText2VecFrom(_, _, _)
IdText2VecFrom(items, id_vec, model) ==
    IF items = <<>> THEN [id_vec |-> id_vec, model |-> model]
    ELSE LET r == Text2Vec(Head(items)[2], model) IN
         IdText2VecFrom(Tail(items), Append(id_vec, <<Head(items)[1], r.vec>>), r.model)

\* idtext2vec(id_text, word2vec_model): the dict id -> vector, and the lookup
\* as the call leaves it
IdText2Vec(id_text, model) == IdText2VecFrom(id_text, <<>>, model)

---------------------------------------------------------------------------
(* get_features and textsimilarity, a step at a time *)

\* A list of titles in the dict's own order.
JobTitlesUnsorted(id_vec) == [k \in 1..Len(id_vec) |-> id_vec[k][1]]

\* jobtitles = sorted(set(jobtitle_vec.keys()))
JobTitles(id_vec) == Sorted(Keys(id_vec))

\* A second distance taken against the k-th vector in the dict's own order.
DistancePairDictOrder(v1, v2, k, titles, id_vec) ==
    << CosineVec(v1, Get(id_vec, titles[k])), CosineVec(v2, id_vec[k][2]) >>

\* vec = jobtitle_vec[jobtitle]; distance1, distance2 for the k-th jobtitle
DistancePair(v1, v2, k, titles, id_vec) ==
    LET v == Get(id_vec, titles[k]) IN << CosineVec(v1, v), CosineVec(v2, v) >>

\* A list that grows at the front.
PushFront(list, x) == <<x>> \o list

\* features.append(x)
ListAppend(list, x) == Append(list, x)

\* np.asarray(list).reshape(len(list), 1)
Reshape(list) == [k \in 1..Len(list) |-> << list[k] >>]

\* np.hstack((a, b)) of two matrices with as many rows
Hstack(a, b) == [k \in 1..Len(a) |-> a[k] \o b[k]]

Raises(d) == d.kind = "ValueError"

---------------------------------------------------------------------------
(* get_features and textsimilarity as functions of their arguments *)

\* lines 117-128 for one pair: the job similarity, or ValueError
JobSim(text_pair, titles, id_vec, model) ==
    LET v1 == Text2Vec(text_pair[1], model).vec
        v2 == Text2Vec(text_pair[2], model).vec
        d  == [k \in 1..Len(titles) |-> DistancePair(v1, v2, k, titles, id_vec)]
    IN  IF \E k \in 1..Len(titles) : Raises(d[k][1]) \/ Raises(d[k][2])
        THEN ValueError
        ELSE OneMinus(CosineList([k \in 1..Len(titles) |-> d[k][1]],
                                 [k \in 1..Len(titles) |-> d[k][2]]))

\* get_features(text_pairs, jobtitle_jobdesc, word2vec_model)
GetFeatures(pairs, jobtitle_jobdesc, model) ==
    LET id_vec == IdText2Vec(jobtitle_jobdesc, model).id_vec
        titles == JobTitles(id_vec)
        rows   == [k \in 1..Len(pairs) |-> JobSim(pairs[k], titles, id_vec, model)]
    IN  [raised |-> \E k \in 1..Len(pairs) : Raises(rows[k]), features |-> Reshape(rows)]

\* lines 83-86 for one pair: the direct similarity, or ValueError
TextSim(text_pair, model) ==
    OneMinus(CosineVec(Text2Vec(text_pair[1], model).vec, Text2Vec(text_pair[2], model).vec))

mainvars == << train_pairs, test_pairs, normalized, text, vec >>

\* line 206: job_description = {job: job + ' ' + desc ...}
AddTitles ==
    /\ pc = "206"
    /\ job_description' =
          [k \in 1..Len(job_description) |->
              << job_description[k][1],
                 job_description[k][1] \o <<" ">> \o job_description[k][2] >>]
    /\ pc' = "209"
    /\ UNCHANGED << word2vec_model, text_pairs, jobtitle_vec, jobtitles, features,
                    vec1, vec2, vec1distances, vec2distances, train_features_job,
                    test_features_job, train_features_txtsim, test_features_txtsim,
                    train_features, test_features, catalog_embeds, at >>
    /\ UNCHANGED mainvars

\* lines 113-115, entered from line 209 (train) or 210 (test)
GetFeaturesBegin ==
    /\ pc \in {"209", "210"}
    /\ at = "idle"
    /\ text_pairs' = IF pc = "209" THEN train_pairs ELSE test_pairs
    /\ LET r == IdText2Vec(job_description, word2vec_model) IN
          /\ jobtitle_vec' = r.id_vec
          /\ word2vec_model' = r.model
          /\ jobtitles' = JobTitles(r.id_vec)
    /\ catalog_embeds' = [t \in DOMAIN catalog_embeds |-> catalog_embeds[t] + 1]
    /\ features' = <<>>
    /\ at' = "loop"
    /\ UNCHANGED << pc, job_description, vec1, vec2, vec1distances, vec2distances,
                    train_features_job, test_features_job, train_features_txtsim,
                    test_features_txtsim, train_features, test_features >>
    /\ UNCHANGED mainvars

\* lines 116-121: the next pair, its two document vectors, two empty profiles
GetFeaturesEmbed ==
    /\ pc \in {"209", "210"}
    /\ at = "loop"
    /\ Len(features) < Len(text_pairs)
    /\ LET text_pair == text_pairs[Len(features) + 1]
           r1 == Text2Vec(text_pair[1], word2vec_model)
           r2 == Text2Vec(text_pair[2], r1.model)
       IN  /\ vec1' = r1.vec
           /\ vec2' = r2.vec
           /\ word2vec_model' = r2.model
    /\ vec1distances' = <<>>
    /\ vec2distances' = <<>>
    /\ at' = "dist"
    /\ UNCHANGED << pc, job_description, text_pairs, jobtitle_vec, jobtitles,
                    features, train_features_job, test_features_job,
                    train_features_txtsim, test_features_txtsim, train_features,
                    test_features, catalog_embeds >>
    /\ UNCHANGED mainvars

\* lines 122-127: one more jobtitle; a ValueError ends the program
GetFeaturesDistance ==
    /\ pc \in {"209", "210"}
    /\ at = "dist"
    /\ Len(vec1distances) < Len(jobtitles)
    /\ LET d == DistancePair(vec1, vec2, Len(vec1distances) + 1, jobtitles, jobtitle_vec) IN
          IF Raises(d[1]) \/ Raises(d[2])
          THEN /\ pc' = "raised"
               /\ at' = "idle"
               /\ UNCHANGED << vec1distances, vec2distances >>
          ELSE /\ vec1distances' = ListAppend(vec1distances, d[1])
               /\ vec2distances' = ListAppend(vec2distances, d[2])
               /\ UNCHANGED << pc, at >>
    /\ UNCHANGED << word2vec_model, job_description, text_pairs, jobtitle_vec,
                    jobtitles, features, vec1, vec2, train_features_job,
                    test_features_job, train_features_txtsim, test_features_txtsim,
                    train_features, test_features, catalog_embeds >>
    /\ UNCHANGED mainvars

\* lines 128-129
GetFeaturesJobSim ==
    /\ pc \in {"209", "210"}
    /\ at = "dist"
    /\ Len(vec1distances) = Len(jobtitles)
    /\ features' = ListAppend(features, OneMinus(CosineList(vec1distances, vec2distances)))
    /\ at' = "loop"
    /\ UNCHANGED << pc, word2vec_model, job_description, text_pairs, jobtitle_vec,
                    jobtitles, vec1, vec2, vec1distances, vec2distances,
                    train_features_job, test_features_job, train_features_txtsim,
                    test_features_txtsim, train_features, test_features,
                    catalog_embeds >>
    /\ UNCHANGED mainvars

\* lines 130-131, back to line 209 or 210
GetFeaturesReturn ==
    /\ pc \in {"209", "210"}
    /\ at = "loop"
    /\ Len(features) = Len(text_pairs)
    /\ IF pc = "209"
       THEN /\ train_features_job' = Reshape(features)
            /\ UNCHANGED test_features_job
       ELSE /\ test_features_job' = Reshape(features)
            /\ UNCHANGED train_features_job
    /\ pc' = IF pc = "209" THEN "210" ELSE "211"
    /\ at' = "idle"
    /\ UNCHANGED << word2vec_model, job_description, text_pairs, jobtitle_vec,
                    jobtitles, features, vec1, vec2, vec1distances, vec2distances,
                    train_features_txtsim, test_features_txtsim, train_features,
                    test_features, catalog_embeds >>
    /\ UNCHANGED mainvars

\* line 81, entered from line 211 (train) or 212 (test)
TextSimilarityBegin ==
    /\ pc \in {"211", "212"}
    /\ at = "idle"
    /\ text_pairs' = IF pc = "211" THEN train_pairs ELSE test_pairs
    /\ features' = <<>>
    /\ at' = "loop"
    /\ UNCHANGED << pc, word2vec_model, job_description, jobtitle_vec, jobtitles,
                    vec1, vec2, vec1distances, vec2distances, train_features_job,
                    test_features_job, train_features_txtsim, test_features_txtsim,
                    train_features, test_features, catalog_embeds >>
    /\ UNCHANGED mainvars

\* lines 82-87: the next pair; a ValueError ends the program
TextSimilarityPair ==
    /\ pc \in {"211", "212"}
    /\ at = "loop"
    /\ Len(features) < Len(text_pairs)
    /\ LET text_pair == text_pairs[Len(features) + 1]
           r1 == Text2Vec(text_pair[1], word2vec_model)
           r2 == Text2Vec(text_pair[2], r1.model)
           d  == CosineVec(r1.vec, r2.vec)
       IN  /\ vec1' = r1.vec
           /\ vec2' = r2.vec
           /\ word2vec_model' = r2.model
           /\ IF Raises(d)
              THEN /\ pc' = "raised"
                   /\ at' = "idle"
                   /\ UNCHANGED features
              ELSE /\ features' = ListAppend(features, OneMinus(d))
                   /\ UNCHANGED << pc, at >>
    /\ UNCHANGED << job_description, text_pairs, jobtitle_vec, jobtitles,
                    vec1distances, vec2distances, train_features_job,
                    test_features_job, train_features_txtsim, test_features_txtsim,
                    train_features, test_features, catalog_embeds >>
    /\ UNCHANGED mainvars

\* lines 88-89, back to line 211 or 212
TextSimilarityReturn ==
    /\ pc \in {"211", "212"}
    /\ at = "loop"
    /\ Len(features) = Len(text_pairs)
    /\ IF pc = "211"
       THEN /\ train_features_txtsim' = Reshape(features)
            /\ UNCHANGED test_features_txtsim
       ELSE /\ test_features_txtsim' = Reshape(features)
            /\ UNCHANGED train_features_txtsim
    /\ pc' = IF pc = "211" THEN "212" ELSE "213"
    /\ at' = "idle"
    /\ UNCHANGED << word2vec_model, job_description, text_pairs, jobtitle_vec,
                    jobtitles, features, vec1, vec2, vec1distances, vec2distances,
                    train_features_job, test_features_job, train_features,
                    test_features, catalog_embeds >>
    /\ UNCHANGED mainvars

\* lines 213-214. Lines 215-219 standardise, normalise and save the two
\* matrices; normalize_features is modelled on its own below.
StackFeatures ==
    /\ pc = "213"
    /\ train_features' = Hstack(train_features_job, train_features_txtsim)
    /\ test_features' = Hstack(test_features_job, test_features_txtsim)
    /\ pc' = "220"
    /\ UNCHANGED << word2vec_model, job_description, text_pairs, jobtitle_vec,
                    jobtitles, features, vec1, vec2, vec1distances, vec2distances,
                    train_features_job, test_features_job, train_features_txtsim,
                    test_features_txtsim, catalog_embeds, at >>
    /\ UNCHANGED mainvars

\* 'i love plants'
SanityText == <<"i", " ", "l", "o", "v", "e", " ", "p", "l", "a", "n", "t", "s">>

\* get_job_dict_ordered(id_text1, id_text2, word2vec_model), lines 97-104:
\* the distances id1 -> id2 -> distance, and the lookup as the call leaves it
GetJobDict(id_text1, id_text2, model) ==
    LET r1 == IdText2Vec(id_text1, model)
        r2 == IdText2Vec(id_text2, r1.model)
    IN  [dist  |-> [k1 \in 1..Len(r1.id_vec) |->
                      << r1.id_vec[k1][1],
                         [k2 \in 1..Len(r2.id_vec) |->
                             << r2.id_vec[k2][1],
                                CosineVec(r1.id_vec[k1][2], r2.id_vec[k2][2]) >>] >>],
         model |-> r2.model]

\* line 220: sanity_check(word2vec_model, job_description). The catalog is
\* embedded once more; a ValueError ends the program. What is printed (the
\* titles ordered by distance) is no state of the program.
SanityCheck ==
    /\ pc = "220"
    /\ LET r == GetJobDict(<< <<1, SanityText>> >>, job_description, word2vec_model) IN
          /\ word2vec_model' = r.model
          /\ pc' = IF \E k \in 1..Len(r.dist[1][2]) : Raises(r.dist[1][2][k][2])
                   THEN "raised" ELSE "done"
    /\ catalog_embeds' = [t \in DOMAIN catalog_embeds |-> catalog_embeds[t] + 1]
    /\ UNCHANGED << job_description, text_pairs, jobtitle_vec, jobtitles, features,
                    vec1, vec2, vec1distances, vec2distances, train_features_job,
                    test_features_job, train_features_txtsim, test_features_txtsim,
                    train_features, test_features, at >>
    /\ UNCHANGED mainvars

---------------------------------------------------------------------------
(* The main block *)

\* What load_jobs returned: title -> description, both lower case.
JobEntries ==
    { << <<"b">>, <<"a", " ", "b">> >>,
      << <<"a", "b">>, <<>> >>,
      << <<"z">>, <<>> >> }

RECURSIVE DictsUpTo(_, _)
\* the dicts of at most n of the entries E, in every insertion order
DictsUpTo(E, n) ==
    IF n = 0 THEN { <<>> }
    ELSE LET shorter == DictsUpTo(E, n - 1) IN
         shorter \cup { Append(d, e) : d \in shorter, e \in { x \in E : TRUE } }

HasDistinctKeys(d) == \A j, k \in 1..Len(d) : d[j][1] = d[k][1] => j = k

Catalogs == { d \in DictsUpTo(JobEntries, MaxCatalog) : Len(d) >= 1 /\ HasDistinctKeys(d) }

\* The text pairs of the train and test files.
Pairs ==
    { << <<>>, <<>> >>,
      << <<"A", " ", "b">>, <<"z", " ", "a">> >>,
      << <<"a", "b">>, <<"a", "b">> >> }

Init ==
    /\ pc = "206"
    /\ at = "idle"
    /\ word2vec_model \in Lookups
    /\ job_description \in Catalogs
    /\ \E all \in SeqsUpTo(Pairs, MaxPairs) : \E n \in 0..Len(all) :
          /\ train_pairs = SubSeq(all, 1, n)
          /\ test_pairs = SubSeq(all, n + 1, Len(all))
    /\ catalog_embeds = [t \in Keys(job_description) |-> 0]
    /\ text_pairs = <<>>
    /\ jobtitle_vec = <<>>
    /\ jobtitles = <<>>
    /\ features = <<>>
    /\ vec1 = Idle
    /\ vec2 = Idle
    /\ vec1distances = <<>>
    /\ vec2distances = <<>>
    /\ train_features_job = Idle
    /\ test_features_job = Idle
    /\ train_features_txtsim = Idle
    /\ test_features_txtsim = Idle
    /\ train_features = Idle
    /\ test_features = Idle
    /\ normalized = Idle
    /\ text = <<>>
    /\ vec = Idle

Next ==
    \/ AddTitles
    \/ GetFeaturesBegin
    \/ GetFeaturesEmbed
    \/ GetFeaturesDistance
    \/ GetFeaturesJobSim
    \/ GetFeaturesReturn
    \/ TextSimilarityBegin
    \/ TextSimilarityPair
    \/ TextSimilarityReturn
    \/ StackFeatures
    \/ SanityCheck

Spec == Init /\ [][Next]_vars

---------------------------------------------------------------------------
(* normalize_features, on matrices of exact rationals [n, d], d > 0 *)

Rat(n, d) == [n |-> n, d |-> d]
RAdd(a, b) == Rat(a.n * b.d + b.n * a.d, a.d * b.d)
RSub(a, b) == Rat(a.n * b.d - b.n * a.d, a.d * b.d)
RMul(a, b) == Rat(a.n * b.n, a.d * b.d)
REq(a, b) == a.n * b.d = b.n * a.d
RLeq(a, b) == a.n * b.d <= b.n * a.d

Column(X, j) == { X[k][j] : k \in 1..Len(X) }

\* MinMaxScaler().fit(X): per column, data_min_, and scale_ = 1 / data_range_
\* with a data_range_ of 0 taken as 1; min_ = 0 - data_min_ * scale_
MinMaxFit(X) ==
    [j \in 1..Len(X[1]) |->
        LET lo == CHOOSE a \in Column(X, j) : \A b \in Column(X, j) : RLeq(a, b)
            hi == CHOOSE a \in Column(X, j) : \A b \in Column(X, j) : RLeq(b, a)
            range == RSub(hi, lo)
            scale == IF range.n = 0 THEN Rat(1, 1) ELSE Rat(range.d, range.n)
        IN  [scale |-> scale, min |-> RSub(Rat(0, 1), RMul(lo, scale))]]

\* scaler.transform(X): X * scale_ + min_, on a copy of X
MinMaxTransform(scaler, X) ==
    [k \in 1..Len(X) |->
        [j \in 1..Len(X[k]) |-> RAdd(RMul(X[k][j], scaler[j].scale), scaler[j].min)]]

\* A normalize_features that returns normal_train.
NormalizeFeaturesBoth(train, test) ==
    LET scaler == MinMaxFit(train) IN
    << MinMaxTransform(scaler, train), MinMaxTransform(scaler, test) >>

\* normalize_features(train_features, test_features): normal_train is
\* computed and dropped; train_features is returned as it came in.
NormalizeFeatures(train, test) ==
    LET scaler == MinMaxFit(train)
        normal_train == MinMaxTransform(scaler, train)
    IN  << train, MinMaxTransform(scaler, test) >>

\* The matrices of two columns with 1..MaxRows rows and entries 0..MaxFeature.
FeatureRows == { << Rat(x, 1), Rat(y, 1) >> : x, y \in 0..MaxFeature }

FeatureMatrices == { X \in SeqsUpTo(FeatureRows, MaxRows) : Len(X) >= 1 }

InitNorm ==
    /\ pc = "normalize_features"
    /\ at = "idle"
    /\ train_features \in FeatureMatrices
    /\ test_features \in FeatureMatrices
    /\ normalized = Idle
    /\ word2vec_model = <<>>
    /\ job_description = <<>>
    /\ train_pairs = <<>>
    /\ test_pairs = <<>>
    /\ text_pairs = <<>>
    /\ jobtitle_vec = <<>>
    /\ jobtitles = <<>>
    /\ features = <<>>
    /\ vec1 = Idle
    /\ vec2 = Idle
    /\ vec1distances = <<>>
    /\ vec2distances = <<>>
    /\ train_features_job = Idle
    /\ test_features_job = Idle
    /\ train_features_txtsim = Idle
    /\ test_features_txtsim = Idle
    /\ catalog_embeds = <<>>
    /\ text = <<>>
    /\ vec = Idle

CallNormalizeFeatures ==
    /\ pc = "normalize_features"
    /\ normalized' = NormalizeFeatures(train_features, test_features)
    /\ pc' = "returned"
    /\ UNCHANGED << at, word2vec_model, job_description, train_pairs, test_pairs,
                    text_pairs, jobtitle_vec, jobtitles, features, vec1, vec2,
                    vec1distances, vec2distances, train_features_job,
                    test_features_job, train_features_txtsim, test_features_txtsim,
                    train_features, test_features, catalog_embeds, text, vec >>

NextNorm == CallNormalizeFeatures

SpecNorm == InitNorm /\ [][NextNorm]_vars

---------------------------------------------------------------------------
(* Properties *)

\* where the main block stands when a call returns, and from then on
Back(line) == pc = line /\ at = "idle"
Past209 == pc \in {"210", "211", "212", "213", "220", "done"}
Past210 == pc \in {"211", "212", "213", "220", "done"}
Past211 == pc \in {"212", "213", "220", "done"}
Past212 == pc \in {"213", "220", "done"}

\* the known-token occurrences of a text: the maximal runs of non-whitespace
\* of the lowercased text that are words of the lookup, as <<first, last>>
KnownOccurrences(t, model) ==
    LET low == Lower(t) IN
    { o \in (1..Len(t)) \X (1..Len(t)) :
        /\ o[1] <= o[2]
        /\ \A k \in o[1]..o[2] : ~IsSpace(low[k])
        /\ (o[1] = 1 \/ IsSpace(low[o[1] - 1]))
        /\ (o[2] = Len(t) \/ IsSpace(low[o[2] + 1]))
        /\ SubSeq(low, o[1], o[2]) \in DOMAIN model }

RECURSIVE SumOver(_, _, _, _)
\* the sum over the occurrences O of component j of the occurrence's vector
SumOver(O, t, model, j) ==
    IF O = {} THEN 0
    ELSE LET o == CHOOSE x \in O : TRUE IN
         model[SubSeq(Lower(t), o[1], o[2])].num[j] + SumOver(O \ {o}, t, model, j)

LookupDim(model) == Dim(model[<<"a">>])

\* the vector of a catalog entry
CatalogVec(title) == Text2Vec(Get(job_description, title), word2vec_model).vec

\* the k-th title in ascending order: k - 1 titles are smaller
KthTitle(k) ==
    CHOOSE t \in Keys(job_description) :
        Cardinality({ u \in Keys(job_description) : StrLess(u, t) }) = k - 1

\* the reorderings of a dict
Reorderings(d) ==
    { [k \in 1..Len(d) |-> d[f[k]]] : f \in Permutations(1..Len(d)) }

\* C1: when get_features or textsimilarity returns, its matrix has one row
\* per input pair, and row i holds the feature of pair i (the job similarity
\* in get_features, the direct similarity in textsimilarity).
C1_RowsAlignWithPairs ==
    LET id_vec == IdText2Vec(job_description, word2vec_model).id_vec
        titles == JobTitles(id_vec)
        Job(p) == [k \in 1..Len(p) |-> << JobSim(p[k], titles, id_vec, word2vec_model) >>]
        Txt(p) == [k \in 1..Len(p) |-> << TextSim(p[k], word2vec_model) >>]
    IN  /\ Back("210") => train_features_job = Job(train_pairs)
        /\ Back("211") => test_features_job = Job(test_pairs)
        /\ Back("212") => train_features_txtsim = Txt(train_pairs)
        /\ Back("213") => test_features_txtsim = Txt(test_pairs)

C1_Witness ==
    /\ Back("212")
    /\ Len(train_pairs) = 2
    /\ train_features_job[1] # train_features_job[2]
    /\ train_features_txtsim[1] # train_features_txtsim[2]

\* C2: text2vec returns the element-wise mean of the lookup vectors of the
\* known tokens of the lowercased, whitespace-split text, one term per
\* occurrence, and a vector of zeros when no token is known.
C2_MeanOfKnownTokens ==
    pc = "returned" =>
        LET O == KnownOccurrences(text, word2vec_model)
            n == Cardinality(O)
        IN  /\ vec.den > 0
            /\ \A j \in 1..2 :
                  IF n = 0 THEN vec.num[j] = 0
                  ELSE n * vec.num[j] = vec.den * SumOver(O, text, word2vec_model, j)

C2_Witness ==
    /\ pc = "returned"
    /\ Cardinality(KnownOccurrences(text, word2vec_model)) = 2
    /\ Len(Split(Lower(text))) = 2
    /\ vec.den = 2
    /\ vec.num # <<0, 0>>

\* C3: every vector text2vec and idtext2vec produce has as many components
\* as the vectors of the lookup.
C3_AllVectorsHaveLookupDim ==
    /\ (pc \in {"209", "210"} /\ at # "idle") =>
          \A k \in 1..Len(jobtitle_vec) : Dim(jobtitle_vec[k][2]) = LookupDim(word2vec_model)
    /\ (pc \in {"209", "210"} /\ at = "dist") =>
          /\ Dim(vec1) = LookupDim(word2vec_model)
          /\ Dim(vec2) = LookupDim(word2vec_model)

\* C4: both distance profiles are laid out by the catalog titles in ascending
\* order: entry k is the cosine distance to the vector of the k-th smallest
\* title, and a finished profile has one entry per title.
C4_ProfilesFollowSortedTitles ==
    (pc \in {"209", "210"} /\ (at = "dist" \/ (at = "loop" /\ Len(features) > 0))) =>
        /\ Len(vec1distances) = Len(vec2distances)
        /\ Len(vec1distances) <= Cardinality(Keys(job_description))
        /\ at = "loop" => Len(vec1distances) = Cardinality(Keys(job_description))
        /\ \A k \in 1..Len(vec1distances) :
              /\ vec1distances[k] = CosineVec(vec1, CatalogVec(KthTitle(k)))
              /\ vec2distances[k] = CosineVec(vec2, CatalogVec(KthTitle(k)))

C4_Witness ==
    /\ pc = "209"
    /\ at = "loop"
    /\ Len(features) = 1
    /\ Len(job_description) = 2
    /\ StrLess(job_description[2][1], job_description[1][1])
    /\ Len(vec1distances) = 2
    /\ vec1distances[1] # vec1distances[2]
    /\ vec1distances # vec2distances

\* C5: over the run, text2vec is applied to each catalog entry's text once.
C5_CatalogEmbeddedOnce ==
    /\ \A t \in DOMAIN catalog_embeds : catalog_embeds[t] <= 1
    /\ pc = "done" => \A t \in DOMAIN catalog_embeds : catalog_embeds[t] = 1

NoKnownToken(t) == KnownOccurrences(t, word2vec_model) = {}

Degenerate(text_pair) == NoKnownToken(text_pair[1]) \/ NoKnownToken(text_pair[2])

DefinedWhereDegenerate(pairs, matrix) ==
    \A k \in 1..Len(pairs) : Degenerate(pairs[k]) => matrix[k][1].kind = "float"

\* C6: with a lookup of the canonical dimension nothing raises, and a pair
\* with a text without known token gets a defined similarity, not nan; so
\* does a profile entry against a catalog entry without known token.
C6_ZeroVectorFallbackDefined ==
    /\ LookupDim(word2vec_model) = ZeroDim => pc # "raised"
    /\ Past209 => DefinedWhereDegenerate(train_pairs, train_features_job)
    /\ Past210 => DefinedWhereDegenerate(test_pairs, test_features_job)
    /\ Past211 => DefinedWhereDegenerate(train_pairs, train_features_txtsim)
    /\ Past212 => DefinedWhereDegenerate(test_pairs, test_features_txtsim)
    /\ (pc \in {"209", "210"} /\ at = "dist") =>
          \A k \in 1..Len(vec1distances) :
              NoKnownToken(Get(job_description, jobtitles[k])) =>
                  vec1distances[k].kind = "float" /\ vec2distances[k].kind = "float"

SelfPair(text_pair) == text_pair[1] = text_pair[2] /\ ~NoKnownToken(text_pair[1])

OneWhereSelf(pairs, matrix) ==
    \A k \in 1..Len(pairs) : SelfPair(pairs[k]) => matrix[k][1] = Num(Scale)

\* C7: a pair (t, t) whose text has a known token has direct similarity 1.0
\* and job similarity 1.0.
C7_SelfSimilarityIsOne ==
    /\ Past209 => OneWhereSelf(train_pairs, train_features_job)
    /\ Past210 => OneWhereSelf(test_pairs, test_features_job)
    /\ Past211 => OneWhereSelf(train_pairs, train_features_txtsim)
    /\ Past212 => OneWhereSelf(test_pairs, test_features_txtsim)

\* C8: the matrix get_features returns is the one it returns for every
\* reordering of the catalog dict.
C8_CatalogOrderInvariant ==
    /\ Back("210") =>
          \A d \in Reorderings(job_description) :
              LET r == GetFeatures(train_pairs, d, word2vec_model) IN
              ~r.raised /\ r.features = train_features_job
    /\ Back("211") =>
          \A d \in Reorderings(job_description) :
              LET r == GetFeatures(test_pairs, d, word2vec_model) IN
              ~r.raised /\ r.features = test_features_job

C8_Witness ==
    /\ Back("210")
    /\ Len(job_description) = 2
    /\ StrLess(job_description[2][1], job_description[1][1])
    /\ Len(train_pairs) = 2
    /\ train_features_job[1][1].kind = "float"
    /\ train_features_job[1][1] # Num(Scale)

\* C9: no step changes a vector of the lookup; after line 206 no step changes
\* the catalog; inside a get_features call no step changes jobtitle_vec.
C9_LookupAndCatalogUnchanged ==
    [][ /\ word2vec_model' = word2vec_model
        /\ pc # "206" => job_description' = job_description
        /\ (pc \in {"209", "210"} /\ at # "idle") => jobtitle_vec' = jobtitle_vec ]_vars

C9_Witness ==
    /\ pc = "done"
    /\ \E k \in 1..Len(train_pairs) :
          Cardinality(KnownOccurrences(train_pairs[k][1], word2vec_model)) >= 2
    /\ \E k \in 1..Len(job_description) :
          Cardinality(KnownOccurrences(job_description[k][2], word2vec_model)) >= 3

MinMaxScaled(X, train, Y) ==
    /\ Len(Y) = Len(X)
    /\ \A k \in 1..Len(X) : \A j \in 1..Len(X[k]) :
          LET lo == CHOOSE a \in Column(train, j) : \A b \in Column(train, j) : RLeq(a, b)
              hi == CHOOSE a \in Column(train, j) : \A b \in Column(train, j) : RLeq(b, a)
          IN  IF REq(lo, hi) THEN REq(Y[k][j], RSub(X[k][j], lo))
              ELSE REq(RMul(Y[k][j], RSub(hi, lo)), RSub(X[k][j], lo))

\* C10: both matrices normalize_features returns are the min-max-scaled
\* inputs, scaled by the minimum and maximum of the train columns.
C10_BothMatricesScaled ==
    pc = "returned" =>
        /\ MinMaxScaled(train_features, train_features, normalized[1])
        /\ MinMaxScaled(test_features, train_features, normalized[2])

=============================================================================
